---------------------------- MODULE Spec2Model ----------------------------
(***************************************************************************)
(* Model of the arcade game's simulation core (responsive variant).        *)
(*                                                                         *)
(* Vertical quantities (bird y, velocity) are kept in HALF pixels, because *)
(* GRAVITY is 0.5 px per tick: a source value of v px is the integer 2*v   *)
(* here (Px converts).  Horizontal quantities and gap heights are whole    *)
(* pixels, as in the source.                                               *)
(*                                                                         *)
(* React scheduling (React 18, createRoot):                                *)
(*  - refs (birdRef, pipesRef, frameCountRef, scoreRef, animationRef) are  *)
(*    written immediately;                                                 *)
(*  - a setState issued by a click / keydown / resize handler is rendered  *)
(*    and its effects are flushed before the handler's task ends, so such  *)
(*    a handler is one atomic action including render and effects;         *)
(*  - a setState issued inside a requestAnimationFrame callback is only    *)
(*    queued (pendGameState, pendScore); the render that applies it        *)
(*    (Commit) and the passive effects of that render (FlushEffects) are   *)
(*    later tasks, which may or may not run before the next animation      *)
(*    frame;                                                               *)
(*  - a frame callback is the gameLoop closure of the render that          *)
(*    scheduled it: it sees the gameState and dimensions captured then;    *)
(*  - the window keydown listener is the closure installed by the last     *)
(*    flushed keyboard effect (keyHandler).                                *)
(* The canvas is taken to be mounted exactly while currentView = "game".   *)
(***************************************************************************)
EXTENDS Integers, Sequences, FiniteSets

(*--------------------------- program constants ---------------------------*)
BIRD_SIZE == 34
PIPE_WIDTH == 60
PIPE_GAP == 160
\* GRAVITY = 0.5 px/tick, in half pixels
GRAVITY == 1
\* JUMP_STRENGTH = -9 px/tick, in half pixels
JUMP_STRENGTH == -18
PIPE_SPEED == 3
\* the bird's fixed horizontal position (literal 100 in the source)
BIRD_X == 100
\* frameCountRef.current % 100 === 0
SPAWN_INTERVAL == 100
\* birdRect inset (literal 4 in the source)
HITBOX_INSET == 4
\* dimensions.height - 20
GROUND_MARGIN == 20
\* const minHeight = 50
MIN_HEIGHT == 50
\* maxHeight = height - PIPE_GAP - minHeight - 100
SPAWN_BOTTOM_MARGIN == 100
\* .slice(0, 10)
LEADERBOARD_SIZE == 10

(*-------------------------------- bounds ---------------------------------*)
\* frames of Playing update delivered in one run
MaxFrames == 325
\* clicks and key presses arrive only while the frame count is a multiple of this
InputPeriod == 15
\* Math.random() is sampled so that topHeight is minHeight + k*GapStep, or the largest legal value
GapStep == 239
\* a score is saved only while the stored leaderboard has fewer entries than this
MaxEntries == 1
\* readings of Date.now() are 0..MaxClock
MaxClock == 1
\* animation frames that may run while a queued render or its effects are outstanding
MaxLag == 1
\* final scores committed in the leaderboard specification are 1..MaxFinalScore
MaxFinalScore == 2
\* resize events arrive only while the frame count is a multiple of this
ResizePeriod == 150
\* frames of Playing update delivered in one run of the resize specification
MaxResizeFrames == 205
MaxLongFrames == 300
MaxFlapFrame == 105

\* window.innerWidth at construction
InnerWidths == {375}

\* window.innerWidth as a resize event may find it
ResizeWidths == {375, 1440}

(*-------------------------------- helpers --------------------------------*)
Min(a, b) == IF a < b THEN a ELSE b
Max(a, b) == IF a > b THEN a ELSE b

\* whole pixels to half pixels
Px(n) == 2 * n

getGameDimensions(innerWidth) ==
    IF innerWidth >= 1440 THEN [width |-> 800, height |-> 900]
    ELSE IF innerWidth >= 1024 THEN [width |-> 600, height |-> 800]
    ELSE [width |-> 400, height |-> 600]

\* faulty variant of NewBird: the new bird is already falling
NewBirdFalling(dims) == [y |-> Px(dims.height) \div 2, velocity |-> GRAVITY, rotation |-> 0]

\* { y: dimensions.height / 2, velocity: 0, rotation: 0 }
NewBird(dims) == [y |-> Px(dims.height) \div 2, velocity |-> 0, rotation |-> 0]

\* Math.min(Math.max(velocity * 3, -30), 90), in half degrees
Rotation(velocity) == Min(Max(velocity * 3, Px(-30)), Px(90))


(*------------------------- leaderboard (storage) -------------------------*)
\* The 'flappyLeaderboard' record of localStorage: present or not, its text
\* the JSON of a list of entries (valid) or not, and the list it encodes;
\* writable tells whether localStorage.setItem succeeds in this session (it
\* throws when the quota is exhausted or the storage is disabled).
Absent == [present |-> FALSE, valid |-> TRUE, data |-> <<>>, writable |-> TRUE]

\* the record localStorage.setItem(..., JSON.stringify(list)) leaves
Stored(list) == [present |-> TRUE, valid |-> TRUE, data |-> list, writable |-> TRUE]

\* a record whose text is not JSON
Malformed == [present |-> TRUE, valid |-> FALSE, data |-> <<>>, writable |-> TRUE]

\* the same record in a storage that accepts no write
ReadOnly(store) == [store EXCEPT !.writable = FALSE]

\* localStorage.setItem throws (QuotaExceededError)
setItemThrows(store) == ~store.writable

\* localStorage.removeItem(...): the record is gone, the storage is as writable as before
Removed(store) == [Absent EXCEPT !.writable = store.writable]

\* JSON.parse(data) throws a SyntaxError
getLeaderboardThrows(store) == store.present /\ ~store.valid

\* localStorage.getItem(...) ; data ? JSON.parse(data) : []  (when it returns)
getLeaderboard(store) == IF store.present THEN store.data ELSE <<>>

\* faulty variant of InsertPos: the new entry goes before the entries of equal score
InsertPosBeforeEqual(list, e) ==
    Cardinality({i \in DOMAIN list : list[i].score > e.score}) + 1

\* position of entry e in a list already sorted descending: after every
\* entry whose score is >= e.score (Array.prototype.sort is stable)
InsertPos(list, e) == Cardinality({i \in DOMAIN list : list[i].score >= e.score}) + 1

InsertAt(list, k, e) ==
    [i \in 1..(Len(list) + 1) |->
        IF i < k THEN list[i] ELSE IF i = k THEN e ELSE list[i - 1]]

\* stable insertion sort, descending by score: [...].sort((a, b) => b.score - a.score)
RECURSIVE SortDesc(_)
SortDesc(list) ==
    IF list = <<>> THEN <<>>
    ELSE LET front == SortDesc(SubSeq(list, 1, Len(list) - 1))
             e == list[Len(list)]
         IN InsertAt(front, InsertPos(front, e), e)

\* faulty variant of Slice: nothing is cut off
SliceAll(list, n) == list

\* .slice(0, 10)
Slice(list, n) == SubSeq(list, 1, Min(n, Len(list)))

\* faulty variant of saveScore: the stored list is cut before the new entry
\* is added, so that the new entry always finds room
saveScoreSliceFirst(store, s, t) ==
    SortDesc(Append(Slice(getLeaderboard(store), LEADERBOARD_SIZE - 1),
                    [score |-> s, id |-> t]))

\* the list saveScore computes, persists and returns; t is the reading of Date.now()
saveScore(store, s, t) ==
    Slice(SortDesc(Append(getLeaderboard(store), [score |-> s, id |-> t])),
          LEADERBOARD_SIZE)

(*------------------------------ obstacles --------------------------------*)
\* faulty variant of TopHeights: the gap may reach down to the ground line
TopHeightsToGround(dims) == {dims.height - GROUND_MARGIN - PIPE_GAP}

\* legal gap-top heights: Math.floor(Math.random() * (maxHeight - minHeight) + minHeight)
TopHeights(dims) ==
    LET maxHeight == dims.height - PIPE_GAP - MIN_HEIGHT - SPAWN_BOTTOM_MARGIN
    IN {t \in MIN_HEIGHT..(maxHeight - 1) :
            (t - MIN_HEIGHT) % GapStep = 0 \/ t = maxHeight - 1}

\* faulty variant of NewPipe: the pipe is created one step right of the edge,
\* as if it were not moved in the frame that creates it
NewPipeAhead(dims, topHeight) ==
    [x |-> dims.width + PIPE_SPEED, topHeight |-> topHeight, passed |-> FALSE]

NewPipe(dims, topHeight) == [x |-> dims.width, topHeight |-> topHeight, passed |-> FALSE]

\* pipe.x -= PIPE_SPEED
MovePipe(p) == [p EXCEPT !.x = p.x - PIPE_SPEED]

\* !pipe.passed && pipe.x + PIPE_WIDTH < 100, on the moved pipe
Crosses(p) == ~p.passed /\ p.x + PIPE_WIDTH < BIRD_X

\* faulty variant of StepPipe: the credited pipe is not marked
StepPipeUnmarked(p) == MovePipe(p)

\* one pipe through the filter callback: move, then mark it passed when credited
StepPipe(p) == LET m == MovePipe(p) IN [m EXCEPT !.passed = m.passed \/ Crosses(m)]

\* faulty variant of Keep: a pipe is dropped as soon as its left edge leaves the playfield
KeepWhileLeftEdgeVisible(p) == p.x > 0

\* return pipe.x > -PIPE_WIDTH
Keep(p) == p.x > -PIPE_WIDTH

\* pipesRef.current.filter(...): the surviving pipes, moved and marked
UpdatePipes(pipes) == SelectSeq([i \in DOMAIN pipes |-> StepPipe(pipes[i])], Keep)

\* number of scoreRef.current++ executed by the filter
Credits(pipes) == Cardinality({i \in DOMAIN pipes : Crosses(MovePipe(pipes[i]))})

(*------------------------------ collisions -------------------------------*)
\* faulty variant of BirdRect: the hitbox is the whole square, without the inset
BirdRectFull(y) ==
    [left   |-> BIRD_X - BIRD_SIZE \div 2,
     right  |-> BIRD_X + BIRD_SIZE \div 2,
     top    |-> y - BIRD_SIZE,
     bottom |-> y + BIRD_SIZE]

\* birdRect, vertical edges in half pixels
BirdRect(y) ==
    [left   |-> BIRD_X - BIRD_SIZE \div 2 + HITBOX_INSET,
     right  |-> BIRD_X + BIRD_SIZE \div 2 - HITBOX_INSET,
     top    |-> y - BIRD_SIZE + Px(HITBOX_INSET),
     bottom |-> y + BIRD_SIZE - Px(HITBOX_INSET)]

\* faulty variant of HitsGround: the ground line is the bottom of the playfield
HitsGroundAtFloor(y, dims) == y + BIRD_SIZE >= Px(dims.height)

\* birdRef.current.y + BIRD_SIZE/2 >= dimensions.height - 20
HitsGround(y, dims) == y + BIRD_SIZE >= Px(dims.height - GROUND_MARGIN)

Overlaps(r, zone) ==
    /\ r.left < zone.right /\ r.right > zone.left
    /\ r.top < zone.bottom /\ r.bottom > zone.top

TopPipe(p) ==
    [left |-> p.x, right |-> p.x + PIPE_WIDTH, top |-> 0, bottom |-> Px(p.topHeight)]

BottomPipe(p, dims) ==
    [left |-> p.x, right |-> p.x + PIPE_WIDTH,
     top |-> Px(p.topHeight + PIPE_GAP), bottom |-> Px(dims.height)]

HitsPipe(y, pipes, dims) ==
    \E i \in DOMAIN pipes :
        \/ Overlaps(BirdRect(y), TopPipe(pipes[i]))
        \/ Overlaps(BirdRect(y), BottomPipe(pipes[i], dims))

(*------------------------------- physics ---------------------------------*)
\* faulty variant of Physics: the position is advanced before the velocity
PhysicsPositionFirst(b) ==
    LET v == b.velocity + GRAVITY
    IN [y |-> b.y + b.velocity, velocity |-> v, rotation |-> Rotation(v)]

\* velocity += GRAVITY; y += velocity; rotation = clamp(velocity * 3, -30, 90)
Physics(b) ==
    LET v == b.velocity + GRAVITY
    IN [y |-> b.y + v, velocity |-> v, rotation |-> Rotation(v)]

(*-------------------------------- state ----------------------------------*)
VARIABLES
    currentView,     \* useState: "menu" | "game" | "rules" | "leaderboard"; "unmounted" once React removed the tree
    dimensions,      \* useState: [width, height]
    gameState,       \* useState: "ready" | "playing" | "gameover" (as last rendered)
    score,           \* useState (as last rendered)
    highScore,       \* useState, computed once from the stored leaderboard
    leaderboard,     \* useState
    birdRef,         \* useRef: [y, velocity, rotation]
    pipesRef,        \* useRef: sequence of [x, topHeight, passed]
    frameCountRef,   \* useRef
    scoreRef,        \* useRef
    animationRef,    \* useRef: index in rafQ of the callback whose id it holds, 0 if none is pending under that id
    rafQ,            \* callbacks requested from requestAnimationFrame, each the captured [gameState, dimensions]
    pendGameState,   \* setGameState queued by a frame callback and not rendered yet, or "none"
    pendScore,       \* setScore queued by a frame callback and not rendered yet, or NoScore
    keyHandler,      \* what the installed keydown listener captured: [gameState, score, dimensions]
    localStorage,    \* the 'flappyLeaderboard' record: [present, valid, data, writable]
    uncaught,        \* an exception has escaped a render or an event handler
    lag              \* frames run since React work became outstanding (bounded by MaxLag)

vars == <<currentView, dimensions, gameState, score, highScore, leaderboard,
          birdRef, pipesRef, frameCountRef, scoreRef, animationRef, rafQ,
          pendGameState, pendScore, keyHandler, localStorage, uncaught, lag>>

simVars == <<birdRef, pipesRef, frameCountRef, scoreRef>>
storeVars == <<leaderboard, localStorage>>

NoScore == -1

Closure(gs, sc, dims) == [gameState |-> gs, score |-> sc, dimensions |-> dims]

\* The state after the first render and its effects, with the given record
\* in localStorage.  When the highScore initializer throws, React removes
\* the whole tree (there is no error boundary) and no effect runs.
BootAt(store, widths) ==
    /\ localStorage = store
    /\ IF getLeaderboardThrows(store)
       THEN /\ currentView = "unmounted"
            /\ uncaught = TRUE
            /\ highScore = 0
            /\ leaderboard = <<>>
       ELSE /\ currentView = "menu"
            /\ uncaught = FALSE
            /\ highScore = (IF Len(getLeaderboard(store)) > 0
                            THEN getLeaderboard(store)[1].score ELSE 0)
            /\ leaderboard = getLeaderboard(store)
    /\ dimensions \in {getGameDimensions(w) : w \in widths}
    /\ gameState = "ready"
    /\ score = 0
    /\ birdRef = NewBird(dimensions)
    /\ pipesRef = <<>>
    /\ frameCountRef = 0
    /\ scoreRef = 0
    /\ animationRef = 0
    /\ rafQ = <<>>
    /\ pendGameState = "none"
    /\ pendScore = NoScore
    /\ keyHandler = Closure("ready", 0, dimensions)
    /\ lag = 0

\* the page is loaded in a window of one of the widths of InnerWidths
Boot(store) == BootAt(store, InnerWidths)

\* the records the page may find in localStorage when it is loaded
InitialRecords == {Absent, Malformed}

Init == \E store \in InitialRecords : Boot(store)

(*------------------------- frames and effects ----------------------------*)
\* a queued render, or the effects of a render, have not run yet
Outstanding ==
    pendGameState # "none" \/ pendScore # NoScore \/ keyHandler.gameState # gameState

\* bookkeeping of the MaxLag bound by every step but a frame
SettleLag == lag' = IF Outstanding' THEN lag ELSE 0

\* the gameLoop callback of a render: useCallback(..., [gameState, dimensions])
LoopClosure(gs, dims) == [gameState |-> gs, dimensions |-> dims]

\* faulty variant of CancelFrame: the cleanup cancels nothing
CancelNothing(q, ref) == q

\* cancelAnimationFrame(animationRef.current), guarded by if (animationRef.current)
CancelFrame(q, ref) ==
    IF ref = 0 THEN q
    ELSE [i \in 1..(Len(q) - 1) |-> IF i < ref THEN q[i] ELSE q[i + 1]]

\* the loop effect: cleanup of the previous run, then the new run
LoopEffectQ(q, ref, view, gs, dims) ==
    LET q1 == CancelFrame(q, ref)
    IN IF view = "game" THEN Append(q1, LoopClosure(gs, dims)) ELSE q1

LoopEffectRef(q, ref, view) ==
    IF view = "game" THEN Len(CancelFrame(q, ref)) + 1 ELSE 0

\* Render with the given state and flush the effects whose dependencies
\* changed since they last ran: loop effect [currentView, gameLoop],
\* keyboard effect [currentView, gameState, jump], canvas effect
\* [dimensions, gameState].  bird1 is birdRef as the handler left it;
\* dimsChanged tells whether the dimensions state holds a new object.
RenderFlush(view1, gs1, score1, dims1, bird1, dimsChanged) ==
    LET gsChanged == gs1 # keyHandler.gameState
        viewChanged == view1 # currentView
    IN /\ currentView' = view1
       /\ gameState' = gs1
       /\ score' = score1
       /\ dimensions' = dims1
       /\ rafQ' = IF viewChanged \/ gsChanged \/ dimsChanged
                  THEN LoopEffectQ(rafQ, animationRef, view1, gs1, dims1)
                  ELSE rafQ
       /\ animationRef' = IF viewChanged \/ gsChanged \/ dimsChanged
                          THEN LoopEffectRef(rafQ, animationRef, view1)
                          ELSE animationRef
       /\ keyHandler' = IF viewChanged \/ gsChanged
                        THEN Closure(gs1, score1, dims1)
                        ELSE keyHandler
       /\ birdRef' = IF (dimsChanged \/ gsChanged) /\ view1 = "game" /\ gs1 = "ready"
                     THEN [bird1 EXCEPT !.y = Px(dims1.height) \div 2]
                     ELSE bird1

\* a render by a handler that does not call setDimensions
RenderAndFlush(view1, gs1, score1, dims1, bird1) ==
    RenderFlush(view1, gs1, score1, dims1, bird1, dims1 # dimensions)

(*------------------------------ game loop --------------------------------*)
\* pipesRef after "Generate pipes": a pipe is pushed when the incremented
\* frame count is a multiple of 100
Generate(pipes, frame, dims, topHeight) ==
    IF frame % SPAWN_INTERVAL = 0 THEN Append(pipes, NewPipe(dims, topHeight)) ELSE pipes

\* faulty variant of Collides: the ground does not end the run
CollidesWithPipesOnly(y, pipes, dims) == HitsPipe(y, pipes, dims)

\* the collision checks of one frame, on the bird and pipes given
Collides(y, pipes, dims) == HitsGround(y, dims) \/ HitsPipe(y, pipes, dims)

\* faulty variant of CollisionBird: the collision checks run before the physics update
CollisionBirdBeforePhysics(before, after) == before

\* the bird the collision checks read: birdRef after the physics update
CollisionBird(before, after) == after

\* the pipes the collision checks read: pipesRef after the filter
CollisionPipes(before, after) == after

\* faulty variant of LoopUpdates: the update also runs in a frame of the Ready mode
LoopUpdatesUnlessOver(g) == g # "gameover"

\* if (gameState === 'playing'): the captured modes in which a frame updates the simulation
LoopUpdates(g) == g = "playing"

\* One animation frame: the oldest requested callback runs.  cb is the
\* closure it was created in; the Playing update runs on cb.gameState.
GameLoop ==
    /\ rafQ # <<>>
    /\ Outstanding => lag < MaxLag
    /\ lag' = IF Outstanding THEN lag + 1 ELSE 0
    /\ LET cb == Head(rafQ)
           rest == Tail(rafQ)
           restRef == IF animationRef > 0 THEN animationRef - 1 ELSE 0
       IN IF currentView # "game"
          THEN \* if (!canvas) return
               /\ rafQ' = rest
               /\ animationRef' = restRef
               /\ UNCHANGED <<simVars, pendGameState, pendScore>>
          ELSE /\ IF LoopUpdates(cb.gameState)
                  THEN /\ frameCountRef < MaxFrames
                       /\ \E topHeight \in TopHeights(cb.dimensions) :
                            LET bird1 == Physics(birdRef)
                                frame1 == frameCountRef + 1
                                generated == Generate(pipesRef, frame1, cb.dimensions, topHeight)
                                credits == Credits(generated)
                                pipes1 == UpdatePipes(generated)
                                dead == Collides(CollisionBird(birdRef, bird1).y,
                                                 CollisionPipes(generated, pipes1),
                                                 cb.dimensions)
                            IN /\ birdRef' = bird1
                               /\ frameCountRef' = frame1
                               /\ pipesRef' = pipes1
                               /\ scoreRef' = scoreRef + credits
                               \* setScore(scoreRef.current)
                               /\ pendScore' = IF credits > 0 THEN scoreRef + credits
                                               ELSE pendScore
                               \* setGameState('gameover')
                               /\ pendGameState' = IF dead /\ gameState # "gameover"
                                                   THEN "gameover" ELSE pendGameState
                  ELSE UNCHANGED <<simVars, pendGameState, pendScore>>
               \* if (gameState !== 'gameover') requestAnimationFrame(gameLoop)
               /\ rafQ' = IF cb.gameState # "gameover" THEN Append(rest, cb) ELSE rest
               /\ animationRef' = IF cb.gameState # "gameover" THEN Len(rest) + 1 ELSE restRef
    /\ UNCHANGED <<currentView, dimensions, gameState, score, highScore, keyHandler,
                   storeVars, uncaught>>

\* React renders the state updates queued by frame callbacks.
Commit ==
    /\ pendGameState # "none" \/ pendScore # NoScore
    /\ keyHandler.gameState = gameState
    /\ gameState' = IF pendGameState # "none" THEN pendGameState ELSE gameState
    /\ score' = IF pendScore # NoScore THEN pendScore ELSE score
    /\ pendGameState' = "none"
    /\ pendScore' = NoScore
    /\ UNCHANGED <<currentView, dimensions, highScore, simVars, animationRef, rafQ,
                   keyHandler, storeVars, uncaught>>
    /\ SettleLag

\* React flushes the passive effects of the last Commit.
FlushEffects ==
    /\ keyHandler.gameState # gameState
    /\ RenderAndFlush(currentView, gameState, score, dimensions, birdRef)
    /\ UNCHANGED <<highScore, pipesRef, frameCountRef, scoreRef, pendGameState,
                   pendScore, storeVars, uncaught>>
    /\ SettleLag

(*------------------------------ user input -------------------------------*)
\* clicks and key presses are delivered only every InputPeriod frames
InputAllowed == frameCountRef % InputPeriod = 0

\* readings of Date.now()
Clock == 0..MaxClock

\* faulty variant of JumpStarts: a flap after the game is over starts a run as well
JumpStartsWhenOver(g) == g = "ready" \/ g = "gameover"

\* jump: the modes in which it starts the run
JumpStarts(g) == g = "ready"

\* faulty variant of JumpFlaps: the first flap only starts the run
JumpFlapsPlayingOnly(g) == g = "playing"

\* jump: the modes in which it sets the velocity
JumpFlaps(g) == g = "ready" \/ g = "playing"

\* faulty variant of FlapVelocity: the impulse is twice as strong
FlapVelocityTwice(velocity) == 2 * JUMP_STRENGTH

\* faulty variant of FlapVelocity: the impulse is added to the velocity
FlapVelocityAdded(velocity) == velocity + JUMP_STRENGTH

\* birdRef.current.velocity = JUMP_STRENGTH
FlapVelocity(velocity) == JUMP_STRENGTH

\* jump(), as the closure of a render in which gameState was g
Jump(g) ==
    LET bird1 == IF JumpFlaps(g)
                 THEN [birdRef EXCEPT !.velocity = FlapVelocity(birdRef.velocity)]
                 ELSE birdRef
    IN IF JumpStarts(g)
       THEN /\ RenderAndFlush(currentView, "playing", score, dimensions, bird1)
            /\ pendGameState' = "none"
            /\ UNCHANGED <<highScore, pipesRef, frameCountRef, scoreRef, pendScore,
                           storeVars, uncaught>>
       ELSE /\ birdRef' = bird1
            /\ UNCHANGED <<currentView, dimensions, gameState, score, highScore,
                           pipesRef, frameCountRef, scoreRef, animationRef, rafQ,
                           pendGameState, pendScore, keyHandler, storeVars, uncaught>>

\* resetGame(), as the closure of a render with the given score and
\* dimensions.  When setItem throws inside saveScore the exception leaves
\* resetGame at its first statement: nothing after it is executed.
ResetGame(sc, dims) ==
    IF sc > 0 /\ setItemThrows(localStorage)
    THEN /\ uncaught' = TRUE
         /\ UNCHANGED <<currentView, dimensions, gameState, score, highScore, simVars,
                        animationRef, rafQ, pendGameState, pendScore, keyHandler,
                        storeVars>>
    ELSE /\ IF sc > 0
            THEN /\ Len(getLeaderboard(localStorage)) < MaxEntries
                 /\ \E t \in Clock :
                      /\ localStorage' = Stored(saveScore(localStorage, sc, t))
                      /\ leaderboard' = saveScore(localStorage, sc, t)
            ELSE UNCHANGED storeVars
         /\ pipesRef' = <<>>
         /\ frameCountRef' = 0
         /\ scoreRef' = 0
         /\ RenderAndFlush(currentView, "ready", 0, dimensions, NewBird(dims))
         /\ pendGameState' = "none"
         /\ pendScore' = NoScore
         /\ UNCHANGED <<highScore, uncaught>>

\* canvas onClick / onTouchStart: the jump of the last render
CanvasClick ==
    /\ currentView = "game"
    /\ InputAllowed
    /\ Jump(gameState)
    /\ SettleLag

\* keydown Space / ArrowUp, handled by the installed listener
KeySpace ==
    /\ currentView = "game"
    /\ IF keyHandler.gameState = "gameover"
       THEN ResetGame(keyHandler.score, keyHandler.dimensions)
       ELSE InputAllowed /\ Jump(keyHandler.gameState)
    /\ SettleLag

\* the "play again" button of the game-over overlay: the resetGame of the last render
ResetButton ==
    /\ currentView = "game"
    /\ gameState = "gameover"
    /\ ResetGame(score, dimensions)
    /\ SettleLag

\* faulty variant of CancelToMenu: the score is not reset
CancelKeepsScore ==
    /\ currentView = "game"
    /\ InputAllowed
    /\ RenderAndFlush("menu", "ready", score, dimensions, birdRef)
    /\ pendGameState' = "none"
    /\ UNCHANGED <<highScore, pipesRef, frameCountRef, scoreRef, pendScore, storeVars,
                   uncaught>>
    /\ SettleLag

\* setCurrentView('menu'); setGameState('ready'); setScore(0)
CancelToMenu ==
    /\ currentView = "game"
    /\ InputAllowed
    /\ RenderAndFlush("menu", "ready", 0, dimensions, birdRef)
    /\ pendGameState' = "none"
    /\ pendScore' = NoScore
    /\ UNCHANGED <<highScore, pipesRef, frameCountRef, scoreRef, storeVars, uncaught>>
    /\ SettleLag

\* keydown Escape
KeyEscape == CancelToMenu

\* the back button of the game view
BackButton == CancelToMenu

(*------------------------------ navigation -------------------------------*)
GoTo(view) ==
    /\ RenderAndFlush(view, gameState, score, dimensions, birdRef)
    /\ UNCHANGED <<highScore, pipesRef, frameCountRef, scoreRef, pendGameState,
                   pendScore, localStorage, uncaught>>
    /\ SettleLag

PlayButton == currentView = "menu" /\ GoTo("game") /\ UNCHANGED leaderboard

RulesButton == currentView = "menu" /\ GoTo("rules") /\ UNCHANGED leaderboard

\* setLeaderboard(getLeaderboard()); setCurrentView('leaderboard')
LeaderboardButton ==
    /\ currentView = "menu"
    /\ GoTo("leaderboard")
    /\ leaderboard' = getLeaderboard(localStorage)

MenuButton ==
    /\ currentView \in {"rules", "leaderboard"}
    /\ GoTo("menu")
    /\ UNCHANGED leaderboard

\* localStorage.removeItem('flappyLeaderboard'); setLeaderboard([])
ClearButton ==
    /\ currentView = "leaderboard"
    /\ Len(leaderboard) > 0
    /\ localStorage' = Removed(localStorage)
    /\ leaderboard' = <<>>
    /\ UNCHANGED <<currentView, dimensions, gameState, score, highScore, simVars,
                   animationRef, rafQ, pendGameState, pendScore, keyHandler, uncaught,
                   lag>>

Next ==
    \/ GameLoop
    \/ Commit
    \/ FlushEffects
    \/ CanvasClick
    \/ KeySpace
    \/ ResetButton
    \/ KeyEscape
    \/ BackButton
    \/ PlayButton
    \/ RulesButton
    \/ LeaderboardButton
    \/ MenuButton
    \/ ClearButton

Spec == Init /\ [][Next]_vars

(*---------------------- leaderboard specification ------------------------*)
\* The leaderboard store under any sequence of commits and clears, starting
\* from an empty localStorage.  The run that produces a final score is not
\* played here: a commit is the saveScore / setLeaderboard pair of resetGame
\* with any positive final score.
FinalScores == 1..MaxFinalScore

\* if (score > 0) { const newLeaderboard = saveScore(score); setLeaderboard(newLeaderboard) }
CommitScore ==
    /\ currentView = "menu"
    /\ \E s \in FinalScores, t \in Clock :
         /\ localStorage' = Stored(saveScore(localStorage, s, t))
         /\ leaderboard' = saveScore(localStorage, s, t)
    /\ UNCHANGED <<currentView, dimensions, gameState, score, highScore, simVars,
                   animationRef, rafQ, pendGameState, pendScore, keyHandler, uncaught,
                   lag>>

StoreInit == Boot(Absent)

StoreNext ==
    \/ CommitScore
    \/ LeaderboardButton
    \/ MenuButton
    \/ ClearButton

StoreSpec == StoreInit /\ [][StoreNext]_vars

(*------------------------- the game under resizes ------------------------*)
ResizeAllowed == frameCountRef % ResizePeriod = 0

\* faulty variant of ResizedBirdY: handleResize leaves the bird where it is
ResizedBirdYKept(y, newDims) == y

\* birdRef.current.y = newDims.height / 2
ResizedBirdY(y, newDims) == Px(newDims.height) \div 2

\* handleResize: every call stores a new dimensions object, so the effects
\* that depend on dimensions (or on gameLoop) run again even when the
\* numbers are the same.
HandleResize ==
    /\ currentView # "unmounted"
    /\ ResizeAllowed
    /\ \E w \in ResizeWidths :
         LET newDims == getGameDimensions(w)
             bird1 == [birdRef EXCEPT !.y = ResizedBirdY(birdRef.y, newDims)]
         IN RenderFlush(currentView, gameState, score, newDims, bird1, TRUE)
    /\ UNCHANGED <<highScore, pipesRef, frameCountRef, scoreRef, pendGameState,
                   pendScore, storeVars, uncaught>>
    /\ SettleLag

\* the page is loaded with one score saved by an earlier session
ResizeInit == Boot(Stored(<<[score |-> 1, id |-> 0]>>))

ResizeNext ==
    \/ GameLoop /\ frameCountRef' <= MaxResizeFrames
    \/ Commit
    \/ FlushEffects
    \/ CanvasClick
    \/ KeySpace
    \/ ResetButton
    \/ KeyEscape
    \/ BackButton
    \/ PlayButton
    \/ RulesButton
    \/ LeaderboardButton
    \/ MenuButton
    \/ ClearButton
    \/ HandleResize

ResizeSpec == ResizeInit /\ [][ResizeNext]_vars

(*------------------- one long run in a resized window --------------------*)
\* The page is loaded in a wide window and the player stays in the game
\* view: one run of up to MaxLongFrames frames, with resizes, in which the
\* player taps the canvas at most every LongInputPeriod frames.
WideWidths == {1440}
LongInputPeriod == 2 * InputPeriod

LongInit == BootAt(Absent, WideWidths)
LongNext ==
    \/ GameLoop /\ frameCountRef' <= MaxLongFrames
    \/ Commit
    \/ FlushEffects
    \/ PlayButton
    \/ CanvasClick /\ frameCountRef % LongInputPeriod = 0
    \/ HandleResize
LongSpec == LongInit /\ [][LongNext]_vars

(*------------------- runs in which the player lets go --------------------*)
\* The player flaps only in the frames up to MaxFlapFrame of a run and
\* neither cancels nor resizes; a finished run may be restarted.  The
\* browser keeps delivering animation frames and React keeps rendering the
\* updates it has queued.
FlapsAllowed == frameCountRef <= MaxFlapFrame

LetGoInit == Boot(Absent)
LetGoNext ==
    \/ GameLoop
    \/ Commit
    \/ FlushEffects
    \/ PlayButton
    \/ CanvasClick /\ FlapsAllowed
    \/ KeySpace /\ (FlapsAllowed \/ keyHandler.gameState = "gameover")
    \/ ResetButton
LetGoSpec ==
    /\ LetGoInit
    /\ [][LetGoNext]_vars
    /\ WF_vars(GameLoop)
    /\ WF_vars(Commit)
    /\ WF_vars(FlushEffects)

(*----------------------------- free fall ---------------------------------*)
\* A run in which the player never flaps again after the bird has come to
\* rest at the centre of the playfield.  The run is started by a flap at
\* frame 0 (velocity JUMP_STRENGTH); FallStartFrame frames later the
\* velocity is 0, and a resize at that moment puts the bird at half of the
\* height (handleResize) and restarts the loop on the new dimensions.
FallStartFrame == (0 - JUMP_STRENGTH) \div GRAVITY

FallWidths == {375, 1024, 1440}

FallStart(dims) ==
    /\ currentView = "game"
    /\ dimensions = dims
    /\ gameState = "playing"
    /\ score = 0
    /\ highScore = 0
    /\ leaderboard = <<>>
    /\ birdRef = NewBird(dims)
    /\ pipesRef = <<>>
    /\ frameCountRef = FallStartFrame
    /\ scoreRef = 0
    /\ animationRef = 1
    /\ rafQ = <<LoopClosure("playing", dims)>>
    /\ pendGameState = "none"
    /\ pendScore = NoScore
    /\ keyHandler = Closure("playing", 0, dims)
    /\ localStorage = Absent
    /\ uncaught = FALSE
    /\ lag = 0

FallInit == \E w \in FallWidths : FallStart(getGameDimensions(w))
FallNext == GameLoop \/ Commit \/ FlushEffects
FallSpec == FallInit /\ [][FallNext]_vars

(*------------------ the game on a storage that is full -------------------*)
\* The page is loaded with one entry on the leaderboard and a localStorage
\* that accepts no further write.
QuotaInit == Boot(ReadOnly(Stored(<<[score |-> 1, id |-> 0]>>)))

QuotaSpec == QuotaInit /\ [][Next]_vars

(*------------------------------- claims ----------------------------------*)
\* a frame that runs the Playing update (the only step that advances the frame count)
PlayingUpdate == GameLoop /\ frameCountRef' = frameCountRef + 1

\* a call of jump(): a click or touch on the canvas, or the flap key
FlapCall == CanvasClick \/ (KeySpace /\ keyHandler.gameState # "gameover")

\* a call of resetGame(): the overlay button, or the confirm key
ResetCall == ResetButton \/ (KeySpace /\ keyHandler.gameState = "gameover")

\* the score as of the latest setScore
ShownScore == IF pendScore # NoScore THEN pendScore ELSE score

\* the pipes whose trailing edge passes the bird's x in the coming frame
\* for the first time
CrossingNow == {i \in DOMAIN pipesRef :
                  /\ ~pipesRef[i].passed
                  /\ pipesRef[i].x - PIPE_SPEED + PIPE_WIDTH < BIRD_X}

\* C1: once gameState is "gameover", a frame callback changes neither the
\* bird, nor the pipes, nor the score.
C1_FrozenAfterGameOver ==
    [][(gameState = "gameover" /\ GameLoop)
        => UNCHANGED <<birdRef, pipesRef, scoreRef, pendScore, score>>]_vars

\* C2: after a collision has been detected (game over requested or rendered)
\* and after the game view has been left, no frame callback runs the Playing
\* update.
C2_LoopStopsAtOnce ==
    [][(pendGameState = "gameover" \/ gameState = "gameover" \/ currentView # "game")
        => ~PlayingUpdate]_vars

\* C3: gameState changes only Ready -> Playing by a flap, Playing -> GameOver
\* by the render of a collision detected in a frame, GameOver -> Ready by
\* reset, and to Ready by cancel; never Ready -> GameOver or GameOver -> Playing.
C3_ModeMachine ==
    [][gameState' # gameState =>
        \/ gameState = "ready" /\ gameState' = "playing" /\ FlapCall
        \/ gameState = "playing" /\ gameState' = "gameover" /\ Commit
        \/ gameState = "gameover" /\ gameState' = "ready" /\ ResetCall
        \/ gameState' = "ready" /\ CancelToMenu]_vars

\* a run went Ready -> Playing -> GameOver -> Ready: its score is on the leaderboard
C3_Witness ==
    gameState = "ready" /\ currentView = "game" /\ Len(leaderboard) > 0

\* C4: a flap in Ready sets gameState to Playing and the velocity to
\* JUMP_STRENGTH in one step, and leaves position, pipes, score and frame
\* count alone.
C4_FlapFromReady ==
    [][(gameState = "ready" /\ FlapCall) =>
        /\ gameState' = "playing"
        /\ birdRef'.velocity = JUMP_STRENGTH
        /\ birdRef'.y = birdRef.y
        /\ UNCHANGED <<pipesRef, score, scoreRef, frameCountRef, pendScore>>]_vars

\* the first flap of a run has just been made
C4_Witness ==
    /\ gameState = "playing" /\ frameCountRef = 0
    /\ birdRef.velocity = JUMP_STRENGTH /\ birdRef.y = Px(dimensions.height) \div 2

\* C5: a flap in Playing sets the velocity to exactly JUMP_STRENGTH whatever
\* it was (so does a second flap before the next frame), and nothing else.
C5_FlapNotCumulative ==
    [][(gameState = "playing" /\ FlapCall) =>
        /\ birdRef'.velocity = JUMP_STRENGTH
        /\ birdRef'.y = birdRef.y
        /\ UNCHANGED <<gameState, pipesRef, score, scoreRef, frameCountRef>>]_vars

\* a flap made in mid-run, after frames in which gravity changed the velocity
C5_Witness ==
    /\ gameState = "playing" /\ frameCountRef > 0 /\ score = scoreRef
    /\ birdRef.velocity = JUMP_STRENGTH /\ birdRef.rotation # Rotation(JUMP_STRENGTH)

\* C6: a flap while gameState is "gameover" changes nothing.
C6_FlapIgnoredWhenOver ==
    [][(gameState = "gameover" /\ FlapCall) =>
        UNCHANGED <<gameState, birdRef, pipesRef, score, scoreRef, frameCountRef>>]_vars

\* C7: a frame callback that runs while gameState is "ready" changes neither
\* the bird, the pipes, the score nor the frame count, and spawns nothing.
C7_TickInertInReady ==
    [][(gameState = "ready" /\ GameLoop) =>
        UNCHANGED <<birdRef, pipesRef, score, scoreRef, frameCountRef,
                    pendScore, pendGameState>>]_vars

\* frames are running in Ready over the remains of a cancelled run
C7_Witness ==
    /\ gameState = "ready" /\ currentView = "game" /\ rafQ # <<>>
    /\ Head(rafQ).gameState = "ready" /\ frameCountRef > 0 /\ Len(pipesRef) > 0

\* the pipes of the next state that were unmarked before the step and are marked after it
NewlyMarked == {j \in DOMAIN pipesRef' :
                  /\ pipesRef'[j].passed
                  /\ \E i \in DOMAIN pipesRef :
                       /\ pipesRef[i].x = pipesRef'[j].x + PIPE_SPEED
                       /\ ~pipesRef[i].passed}

C9_ScoreByOnePerPipe ==
    [][PlayingUpdate => ShownScore' = ShownScore + Cardinality(CrossingNow)]_vars

\* C10: the collision checks of a frame read the bird after the physics
\* update and the pipes after they moved, and the credit of the frame is
\* given whether or not the frame ends the run.
C10_TickOrder ==
    [][(PlayingUpdate /\ gameState = "playing" /\ pendGameState = "none") =>
        /\ (pendGameState' = "gameover")
              <=> Collides(birdRef'.y, pipesRef', dimensions)
        /\ birdRef' = Physics(birdRef)
        /\ scoreRef' = scoreRef + Cardinality(CrossingNow)]_vars

\* the frame that ended the run also credited the pipe it had just passed
C10_Witness ==
    /\ pendGameState = "gameover" /\ lag = 0 /\ pendScore = scoreRef
    /\ \E i \in DOMAIN pipesRef :
         pipesRef[i].passed /\ pipesRef[i].x + PIPE_WIDTH + PIPE_SPEED >= BIRD_X

\* a Playing frame of the current render, run while no game over is pending
LiveTick == PlayingUpdate /\ gameState = "playing" /\ pendGameState = "none"

\* C11: in a Playing frame the run is ended exactly when, after the physics
\* update, the lower edge of the bird's body (y + BIRD_SIZE/2) is at or below
\* height - 20, whether or not an obstacle is hit as well; the bird is neither
\* clamped nor bounced, and the render of that frame sets the mode to GameOver.
C11_GroundCollision ==
    [][/\ LiveTick =>
            LET lowerEdge == birdRef'.y + BIRD_SIZE
                ground == Px(dimensions.height - GROUND_MARGIN)
            IN /\ lowerEdge >= ground => pendGameState' = "gameover"
               /\ (pendGameState' = "gameover"
                     /\ ~HitsPipe(birdRef'.y, pipesRef', dimensions)) => lowerEdge >= ground
               /\ birdRef'.velocity = birdRef.velocity + GRAVITY
               /\ birdRef'.y = birdRef.y + birdRef'.velocity
       /\ (Commit /\ pendGameState = "gameover") => gameState' = "gameover"]_vars

\* the bird fell on the ground line between the lines of the playfield bottom
\* and the ground margin, with no obstacle alive
C11_Witness ==
    /\ pendGameState = "gameover" /\ pipesRef = <<>> /\ lag = 0
    /\ birdRef.y + BIRD_SIZE >= Px(dimensions.height - GROUND_MARGIN)
    /\ birdRef.y + BIRD_SIZE < Px(dimensions.height)

\* the hitbox of the claim: the square of side BIRD_SIZE centred at (BIRD_X, y),
\* inset by 4 px on every side; vertical edges in half pixels
ClaimedHitbox(y) ==
    [left   |-> BIRD_X - 17 + 4, right  |-> BIRD_X + 17 - 4,
     top    |-> y - 34 + 8,      bottom |-> y + 34 - 8]

\* strict overlap of the claimed hitbox with a hazard zone of pipe p
InTopZone(h, p) ==
    /\ h.left < p.x + PIPE_WIDTH /\ h.right > p.x
    /\ h.top < Px(p.topHeight) /\ h.bottom > 0

InBottomZone(h, p, height) ==
    /\ h.left < p.x + PIPE_WIDTH /\ h.right > p.x
    /\ h.top < Px(height) /\ h.bottom > Px(p.topHeight + PIPE_GAP)

\* C12: a Playing frame ends the run if and only if the ground condition
\* holds or the inset hitbox strictly overlaps the top or the bottom hazard
\* zone of some live pipe; a hitbox inside the gap, or one that only touches
\* an edge of a zone, does not end the run.
C12_ObstacleCollision ==
    [][LiveTick =>
        LET h == ClaimedHitbox(birdRef'.y)
        IN (pendGameState' = "gameover") <=>
              \/ birdRef'.y + BIRD_SIZE >= Px(dimensions.height - GROUND_MARGIN)
              \/ \E i \in DOMAIN pipesRef' :
                    \/ InTopZone(h, pipesRef'[i])
                    \/ InBottomZone(h, pipesRef'[i], dimensions.height)]_vars

\* the run was ended by a pipe, well above the ground
C12_Witness ==
    /\ pendGameState = "gameover" /\ lag = 0
    /\ birdRef.y + BIRD_SIZE < Px(dimensions.height - GROUND_MARGIN)
    /\ \E i \in DOMAIN pipesRef :
         \/ InTopZone(ClaimedHitbox(birdRef.y), pipesRef[i])
         \/ InBottomZone(ClaimedHitbox(birdRef.y), pipesRef[i], dimensions.height)

\* pipe j of the next state is pipe i of this state, moved by one frame
MovedFrom(i, j) == pipesRef[i].x = pipesRef'[j].x + PIPE_SPEED

\* the pipes of the next state that did not exist in this state
Spawned ==
    IF pipesRef' = pipesRef THEN {}
    ELSE {j \in DOMAIN pipesRef' : \A i \in DOMAIN pipesRef : ~MovedFrom(i, j)}

\* C13: the gap top of every pipe is an integer with
\* 50 <= topHeight <= height - 160 - 50 - 20, and it never changes after the
\* pipe was created.
C13_GapTopBounds ==
    [][/\ \A j \in DOMAIN pipesRef' :
            /\ pipesRef'[j].topHeight \in Int
            /\ 50 <= pipesRef'[j].topHeight
            /\ pipesRef'[j].topHeight <= dimensions'.height - 160 - 50 - 20
       /\ GameLoop =>
            \A j \in DOMAIN pipesRef' : \A i \in DOMAIN pipesRef :
                MovedFrom(i, j) => pipesRef'[j].topHeight = pipesRef[i].topHeight
       /\ ~GameLoop => (pipesRef' = pipesRef \/ pipesRef' = <<>>)]_vars

\* a pipe with the largest gap top the generator draws has travelled past the bird
C13_Witness ==
    \E i \in DOMAIN pipesRef :
        /\ pipesRef[i].topHeight = dimensions.height - 160 - 50 - 100 - 1
        /\ pipesRef[i].x + PIPE_WIDTH < BIRD_X

\* C14: a pipe is appended exactly in the frames of the Playing mode whose
\* incremented frame count is a multiple of 100: one pipe, last in the list,
\* created at x = width (and moved by PIPE_SPEED in the same frame) and not
\* marked passed; no other step, and no step in another mode, creates a pipe.
C14_SpawnEveryInterval ==
    [][IF gameState = "playing" /\ PlayingUpdate /\ frameCountRef' % 100 = 0
       THEN /\ Spawned = {Len(pipesRef')}
            /\ pipesRef'[Len(pipesRef')].x + PIPE_SPEED = dimensions.width
            /\ ~pipesRef'[Len(pipesRef')].passed
       ELSE Spawned = {}]_vars

\* C15: after every frame that runs the Playing update every live pipe has
\* x > -60; a pipe is dropped only when x + 60 <= 0 after its move, and the
\* pipes that remain keep their relative order.
C15_RemovalOffScreen ==
    [][PlayingUpdate =>
        /\ \A j \in DOMAIN pipesRef' : pipesRef'[j].x > -60
        /\ \A i \in DOMAIN pipesRef :
              pipesRef[i].x - PIPE_SPEED + 60 > 0 => \E j \in DOMAIN pipesRef' : MovedFrom(i, j)
        /\ \A i1, i2 \in DOMAIN pipesRef : \A j1, j2 \in DOMAIN pipesRef' :
              (i1 < i2 /\ MovedFrom(i1, j1) /\ MovedFrom(i2, j2)) => j1 < j2]_vars

\* the first pipe has been dropped and the second, spawned 100 frames later, is alone
C15_Witness ==
    /\ frameCountRef > 250 /\ frameCountRef < 300
    /\ Len(pipesRef) = 1 /\ pipesRef[1].x > BIRD_X

\* C16: after resetGame() the bird is at height/2 with zero velocity, there is
\* no pipe, the score, the frame count and the score counter are 0 and the
\* mode is Ready, whatever the state was before.
C16_ResetReinitializes ==
    [][ResetCall =>
        /\ birdRef'.y = Px(dimensions.height) \div 2
        /\ birdRef'.velocity = 0
        /\ pipesRef' = <<>>
        /\ score' = 0 /\ pendScore' = NoScore
        /\ frameCountRef' = 0
        /\ scoreRef' = 0
        /\ gameState' = "ready" /\ pendGameState' = "none"]_vars

\* a run that had pipes and a positive score has been reset
C16_Witness ==
    /\ gameState = "ready" /\ currentView = "game" /\ Len(leaderboard) > 0
    /\ pipesRef = <<>> /\ frameCountRef = 0 /\ scoreRef = 0 /\ score = 0
    /\ birdRef.y = Px(dimensions.height) \div 2 /\ birdRef.velocity = 0

\* a list of entries is sorted descending by score
SortedDesc(list) ==
    \A i, j \in DOMAIN list : i < j => list[i].score >= list[j].score

\* C17: resetGame() commits the score of the run that just ended if and only
\* if it is positive: with score > 0 the stored leaderboard gets length
\* min(10, previous length + 1), is sorted descending and is the leaderboard
\* held in memory; with score = 0 neither leaderboard changes.
C17_ResetCommitsPositive ==
    [][ResetCall =>
        IF score > 0
        THEN /\ localStorage'.present
             /\ Len(localStorage'.data) = Min(10, Len(getLeaderboard(localStorage)) + 1)
             /\ SortedDesc(localStorage'.data)
             /\ leaderboard' = localStorage'.data
        ELSE UNCHANGED <<localStorage, leaderboard>>]_vars

\* C18: the stored leaderboard never holds more than 10 entries and is always
\* sorted descending by score, after any sequence of commits and clears that
\* starts from an empty localStorage.
C18_StoredBoundedSorted ==
    /\ localStorage.valid
    /\ Len(getLeaderboard(localStorage)) <= 10
    /\ \A i, j \in DOMAIN getLeaderboard(localStorage) :
          i < j => getLeaderboard(localStorage)[i].score >= getLeaderboard(localStorage)[j].score

\* the leaderboard is full, holds both scores, and a lower score has been cut off or kept last
C18_Witness ==
    /\ Len(getLeaderboard(localStorage)) = 10
    /\ getLeaderboard(localStorage)[1].score > getLeaderboard(localStorage)[10].score

\* the list the claim describes: entry e put after every entry of old whose
\* score is at least e's, the entries of old in their order, cut to 10
PlacedAfterEquals(old, e) ==
    LET k == Cardinality({i \in DOMAIN old : old[i].score >= e.score})
        all == [i \in 1..(Len(old) + 1) |->
                    IF i <= k THEN old[i] ELSE IF i = k + 1 THEN e ELSE old[i - 1]]
    IN SubSeq(all, 1, IF Len(all) > 10 THEN 10 ELSE Len(all))

\* C19: a commit places the new entry after all stored entries of equal (or
\* higher) score and keeps the order of the stored entries; committed to ten
\* entries of one score, a further entry of that score leaves those ten.
C19_StableTies ==
    [][CommitScore =>
        /\ \E s \in FinalScores, t \in Clock :
              getLeaderboard(localStorage') =
                  PlacedAfterEquals(getLeaderboard(localStorage), [score |-> s, id |-> t])
        /\ (/\ Len(getLeaderboard(localStorage)) = 10
            /\ \A i \in 1..10 : getLeaderboard(localStorage)[i].score = MaxFinalScore
            /\ getLeaderboard(localStorage')[10].score = MaxFinalScore)
              => getLeaderboard(localStorage') = getLeaderboard(localStorage)]_vars

\* ten entries of one score, committed at different clock readings
C19_Witness ==
    /\ Len(getLeaderboard(localStorage)) = 10
    /\ \A i \in 1..10 : getLeaderboard(localStorage)[i].score = MaxFinalScore
    /\ getLeaderboard(localStorage)[9].id < getLeaderboard(localStorage)[10].id

\* C20: getLeaderboard never fails its caller: with an absent or malformed
\* record the first render (the highScore initializer) completes, the page
\* is shown and the leaderboard and the high score are empty and 0.
C20_LoadNeverFails ==
    (~localStorage.present \/ ~localStorage.valid) =>
        /\ currentView # "unmounted"
        /\ leaderboard = <<>>
        /\ highScore = 0

\* C21: when the write to localStorage fails during resetGame(), the
\* leaderboard held in memory still receives the new entry and resetGame()
\* completes: bird re-centred, no pipes, score and frame count 0, mode Ready.
C21_WriteFailureNonFatal ==
    [][(ResetCall /\ score > 0 /\ keyHandler.score = score /\ setItemThrows(localStorage)) =>
        /\ \E i \in DOMAIN leaderboard' : leaderboard'[i].score = score
        /\ Len(leaderboard') = Min(10, Len(leaderboard) + 1)
        /\ birdRef'.y = Px(dimensions.height) \div 2
        /\ pipesRef' = <<>>
        /\ score' = 0
        /\ frameCountRef' = 0
        /\ gameState' = "ready"]_vars

\* the score of the first entry of the stored leaderboard, 0 when it is empty
TopScore(store) ==
    IF Len(getLeaderboard(store)) > 0 THEN getLeaderboard(store)[1].score ELSE 0

\* C22: each time the session updates or loads the leaderboard (a reset, the
\* opening of the leaderboard view, a clear), the high score shown equals the
\* top score of the stored leaderboard, 0 when that is empty.
C22_HighScoreIsTop ==
    [][(ResetCall \/ LeaderboardButton \/ ClearButton) =>
        highScore' = TopScore(localStorage')]_vars

\* C23: cancel (Escape or the back button, in the game view) shows the menu
\* and sets the mode to Ready and the score to 0, whatever the mode was.
C23_CancelToReady ==
    [][(KeyEscape \/ BackButton) =>
        /\ currentView' = "menu"
        /\ gameState' = "ready"
        /\ score' = 0
        /\ pendGameState' = "none" /\ pendScore' = NoScore]_vars

\* a run with a credited pipe has been cancelled
C23_Witness ==
    /\ currentView = "menu" /\ gameState = "ready" /\ score = 0
    /\ scoreRef > 0 /\ frameCountRef > 0

\* C24: no two entries of the leaderboard, stored or held in memory, have
\* the same id, whatever the clock readings of the commits were.
C24_UniqueIds ==
    /\ \A i, j \in DOMAIN leaderboard : i # j => leaderboard[i].id # leaderboard[j].id
    /\ \A i, j \in DOMAIN getLeaderboard(localStorage) :
          i # j => getLeaderboard(localStorage)[i].id # getLeaderboard(localStorage)[j].id

\* C25: a resize while the mode is Ready leaves the bird at half of the new
\* playfield height.
C25_ResizeRecentresInReady ==
    [][(HandleResize /\ gameState = "ready") =>
        /\ gameState' = "ready"
        /\ birdRef'.y = Px(dimensions'.height) \div 2]_vars

\* the playfield has been enlarged in Ready and the bird is at its centre
C25_Witness ==
    /\ gameState = "ready" /\ dimensions.height = 900 /\ birdRef.y = Px(450)

\* C26: the x positions of the live pipes are strictly increasing along the
\* list (oldest first, leftmost first), also after the playfield width has
\* changed during a run.
C26_PipesLeftToRight ==
    \A i, j \in DOMAIN pipesRef : i < j => pipesRef[i].x < pipesRef[j].x

\* C27: at most one frame callback of the game loop is pending at any moment,
\* and it is the one animationRef names, through every restart of the loop
\* by a change of mode, view or dimensions.
C27_OneFrameCallback ==
    /\ Len(rafQ) <= 1
    /\ rafQ # <<>> => animationRef = 1

\* the loop has been restarted by a resize in the middle of a run
C27_Witness ==
    /\ gameState = "playing" /\ frameCountRef > 0 /\ Len(rafQ) = 1
    /\ rafQ[1].dimensions.width = 800 /\ rafQ[1].gameState = "playing"

\* ticks run since the fall began, and the closed form of the fall
FallTicks == frameCountRef - FallStartFrame
FallClosedForm ==
    /\ birdRef.velocity = GRAVITY * FallTicks
    /\ birdRef.y = Px(dimensions.height) \div 2 + GRAVITY * ((FallTicks * (FallTicks + 1)) \div 2)

\* the lower edge of the inset hitbox / of the body is at the ground line
HitboxAtGround(y) == y + BIRD_SIZE - Px(HITBOX_INSET) >= Px(dimensions.height - GROUND_MARGIN)
BodyAtGround(y) == y + BIRD_SIZE >= Px(dimensions.height - GROUND_MARGIN)

\* C28 (as stated): in free fall from height/2 with velocity 0, after N ticks
\* velocity = 0.5 N and position = height/2 + 0.5 N (N + 1) / 2, and game over
\* is set by the first tick in which the lower hitbox edge reaches
\* height - groundMargin.
C28_FreeFallToHitboxEdge ==
    /\ [](FallClosedForm)
    /\ []((gameState = "playing" /\ pendGameState = "none") => ~HitboxAtGround(birdRef.y))
    /\ [][LiveTick => (pendGameState' = "gameover" <=> HitboxAtGround(birdRef'.y))]_vars

\* C28 (amended): the same closed form, and game over is set by the first
\* tick in which the lower edge of the bird's body (position + half of the
\* bird's size) reaches height - groundMargin.
C28_FreeFallToBodyEdge ==
    /\ [](FallClosedForm)
    /\ []((gameState = "playing" /\ pendGameState = "none") => ~BodyAtGround(birdRef.y))
    /\ [][LiveTick => (pendGameState' = "gameover" <=> BodyAtGround(birdRef'.y))]_vars

\* the fall on the 600 px playfield has just ended, at its 32nd tick
C28_Witness ==
    /\ pendGameState = "gameover" /\ gameState = "playing"
    /\ dimensions.height = 600 /\ FallTicks = 32
    /\ birdRef.velocity = 32 /\ birdRef.y = Px(300) + 528

\* the first pipe of a run on the 400 px playfield, and the frames in which
\* it is the only pipe
FirstSpawnTick == SPAWN_INTERVAL
FirstPipeAlone == frameCountRef >= FirstSpawnTick /\ frameCountRef < 2 * SPAWN_INTERVAL

\* C29 (as stated): the first pipe is spawned at tick 100 and is at x = 100
\* (the bird's x) exactly 100 ticks after its spawn tick, at tick 200.
C29_AtBirdAfterHundredTicks ==
    frameCountRef = FirstSpawnTick + 100 =>
        pipesRef # <<>> /\ pipesRef[1].x = BIRD_X

\* C29 (amended): the first pipe is spawned at tick 100 and advanced in that
\* tick already, so after k ticks from its spawn tick it is at
\* 400 - 3 (k + 1); it reaches x = 100 at tick 199, 99 ticks after its spawn
\* tick, and it is credited at tick 220 and at no earlier tick.
C29_FirstPipeTiming ==
    /\ [](frameCountRef < FirstSpawnTick => pipesRef = <<>>)
    /\ [](FirstPipeAlone =>
            /\ Len(pipesRef) = 1
            /\ pipesRef[1].x = 400 - PIPE_SPEED * (frameCountRef - FirstSpawnTick + 1)
            /\ (pipesRef[1].x = BIRD_X <=> frameCountRef = FirstSpawnTick + 99))
    /\ [][(PlayingUpdate /\ frameCountRef' <= 220) =>
            (scoreRef' = scoreRef + 1 <=> frameCountRef' = 220)]_vars
    /\ [][(PlayingUpdate /\ frameCountRef' <= 220) =>
            (scoreRef' = scoreRef <=> frameCountRef' < 220)]_vars

\* the first pipe has just been credited, no collision having ended the run
C29_Witness ==
    /\ gameState = "playing" /\ pendGameState = "none"
    /\ frameCountRef = 220 /\ scoreRef = 1 /\ pendScore = 1
    /\ pipesRef[1].x = 37 /\ pipesRef[1].passed

\* C30: the velocity of the bird is never below JUMP_STRENGTH (-9 px per
\* tick), and no frame raises the bird by more than
\* |JUMP_STRENGTH + GRAVITY| = 8.5 px, however many flaps were issued.
C30_AscentCapped ==
    /\ [](birdRef.velocity >= JUMP_STRENGTH)
    /\ [][GameLoop => birdRef.y - birdRef'.y <= 0 - (JUMP_STRENGTH + GRAVITY)]_vars

\* the frame after a flap in mid-air: the bird rises at the maximal rate
C30_Witness ==
    /\ gameState = "playing" /\ frameCountRef = InputPeriod + 1
    /\ birdRef.velocity = JUMP_STRENGTH + GRAVITY

\* C31: whenever the mode is Ready the simulation is pristine: no pipe, tick
\* counter and internal score counter 0, the bird at the centre height with
\* velocity 0; also after a cancel from Playing or GameOver and the next
\* entry into the game view.
C31_ReadyIsPristine ==
    (gameState = "ready" /\ pendGameState = "none") =>
        /\ pipesRef = <<>>
        /\ frameCountRef = 0
        /\ scoreRef = 0
        /\ birdRef.y = Px(dimensions.height) \div 2
        /\ birdRef.velocity = 0

\* C32: the score state and the internal counter scoreRef never diverge:
\* once the updates queued by a frame are rendered, score = scoreRef, after
\* every tick, flap, reset and cancel.
C32_ScoreMatchesCounter == ShownScore = scoreRef

\* C33: whenever the mode leaves GameOver with a positive final score, by
\* reset or by cancel, the stored leaderboard holds an entry with that score
\* (the list is never full here, so no entry can rank below the retained ones).
C33_FinalScoreCommitted ==
    [][(gameState = "gameover" /\ gameState' # "gameover" /\ score > 0) =>
        \E i \in DOMAIN getLeaderboard(localStorage') :
            getLeaderboard(localStorage')[i].score = score]_vars

\* C34: a resize received while the mode is Playing or GameOver leaves the
\* simulation unchanged: the bird, every pipe, the score and the tick counter
\* are the same before and after the event.
C34_ResizeKeepsSimulation ==
    [][(HandleResize /\ gameState \in {"playing", "gameover"}) =>
        /\ birdRef' = birdRef
        /\ pipesRef' = pipesRef
        /\ frameCountRef' = frameCountRef
        /\ scoreRef' = scoreRef
        /\ score' = score]_vars

\* the hitbox of a bird at height y is within the horizontal extent of pipe p
BesidePipe(y, p) == BirdRect(y).left < p.x + PIPE_WIDTH /\ BirdRect(y).right > p.x

\* the hitbox of a bird at height y lies vertically inside the gap of pipe p
InsideGap(y, p) ==
    /\ Px(p.topHeight) <= BirdRect(y).top
    /\ BirdRect(y).bottom <= Px(p.topHeight + PIPE_GAP)

\* C35: when a Playing frame that does not end the run leaves the hitbox
\* within the horizontal extent of a live pipe, the hitbox lies vertically
\* inside that pipe's gap; there is no way past a pipe but through the gap.
C35_OnlyThroughTheGap ==
    [][(LiveTick /\ pendGameState' = "none") =>
        \A i \in DOMAIN pipesRef' :
            BesidePipe(birdRef'.y, pipesRef'[i]) => InsideGap(birdRef'.y, pipesRef'[i])]_vars

\* C36: the gap of every live pipe lies inside the playable area of the
\* current playfield: topHeight >= 0 and topHeight + PIPE_GAP <= height - 20,
\* also for pipes spawned before the dimensions changed.
C36_GapInsidePlayfield ==
    \A i \in DOMAIN pipesRef :
        /\ pipesRef[i].topHeight >= 0
        /\ pipesRef[i].topHeight + PIPE_GAP <= dimensions.height - GROUND_MARGIN

\* the largest number of live pipes the claim allows on a playfield
MaxLivePipes(dims) == IF dims.width = 400 THEN 2 ELSE 3

\* C37: there are never more than 2 live pipes on the 400 px wide playfield
\* and never more than 3 on the 600 px and 800 px wide ones.
C37_LivePipesBounded == Len(pipesRef) <= MaxLivePipes(dimensions)

\* C38: every run ends once the player stops flapping: from a Playing state,
\* with no further flap, cancel or resize and frames still being executed,
\* the mode eventually is GameOver.
C38_RunEndsWithoutFlaps == (gameState = "playing") ~> (gameState = "gameover")

\* a run has ended after the player let go, in free fall
C38_Witness ==
    /\ gameState = "gameover" /\ frameCountRef > MaxFlapFrame + InputPeriod
    /\ birdRef.velocity > 0

\* how many entries of a list have score v, and how many a score above v
ScoreCount(list, v) == Cardinality({i \in DOMAIN list : list[i].score = v})
ScoresAbove(list, v) == Cardinality({i \in DOMAIN list : list[i].score > v})

\* how many entries of score v are among the 10 highest scores of the
\* entries of old together with one new score s
BestCount(old, s, v) ==
    LET count == ScoreCount(old, v) + (IF s = v THEN 1 ELSE 0)
        above == ScoresAbove(old, v) + (IF s > v THEN 1 ELSE 0)
    IN Max(0, Min(count, 10 - above))

\* C39: a save leaves in the leaderboard the 10 highest scores of the stored
\* scores and the new one, as a multiset (so, from an empty leaderboard, the
\* min(10, n) highest of the n scores saved since the last clear), and the new
\* entry is in the list exactly when fewer than 10 stored entries have a
\* score greater than or equal to it: otherwise the list is the stored one.
C39_KeepsBestScores ==
    [][CommitScore =>
        \E s \in FinalScores, t \in Clock :
            LET old == getLeaderboard(localStorage)
                new == getLeaderboard(localStorage')
                k == Cardinality({i \in DOMAIN old : old[i].score >= s})
            IN /\ leaderboard' = new
               /\ \A v \in FinalScores : ScoreCount(new, v) = BestCount(old, s, v)
               /\ Len(new) = Min(Len(old) + 1, 10)
               /\ IF k < 10
                  THEN new[k + 1] = [score |-> s, id |-> t]
                  ELSE new = old]_vars

\* a full leaderboard of nine entries of the higher score and one of the lower
C39_Witness ==
    /\ Len(getLeaderboard(localStorage)) = 10
    /\ getLeaderboard(localStorage)[9].score = MaxFinalScore
    /\ getLeaderboard(localStorage)[10].score = 1
    /\ leaderboard = getLeaderboard(localStorage)

=============================================================================
